---- MODULE Spec2Model ----
(***************************************************************************)
(* Gameflip sales monitor: the sale tracker (process_new_sales), the       *)
(* persistent store (SalesStorage), the fallback notifier                  *)
(* (AlternativeNotifier), the webhook poster (DiscordNotifier) and the     *)
(* monitor loop (GameflipMonitor.run).                                     *)
(*                                                                         *)
(* A sale record is modelled by what process_new_sales reads of it: a      *)
(* positive number is a record whose 'id' is that identifier, 0 is a       *)
(* record without a (truthy) 'id', and -1 is a list element that is not a  *)
(* record at all (sale.get raises AttributeError on it).                   *)
(***************************************************************************)
EXTENDS Integers, Sequences, FiniteSets, TLC

\* ------------------------------------------------------------ constants
\* Program constants.
TrackWindow == 20
MaxNotify == 5
MaxTracked == 100
MaxHistory == 50
MaxWait == 10
DefaultRetryAfter == 5

\* Bounds of the model.
MaxId == 2
Over == 1
MaxCycles == 2
MaxDay == 1
MaxFailures == 2
MaxStoreOps == 3
MaxRetryAfter == 11
IntervalSpread == 3
MaxLogged == 3

NotADict == -1
NoId == 0

\* CHECK_INTERVAL must be at least this many seconds.
MinInterval == 30

\* The value of `status` while main() has not returned.
NotReturned == -1

\* ------------------------------------------------------------ sequences
Min(a, b) == IF a <= b THEN a ELSE b

\* Mutant of Take: the slice is dropped.
TakeAll(s, n) == s

\* Python's s[:n].
Take(s, n) == SubSeq(s, 1, Min(Len(s), n))

\* Mutant of LastN: nothing is cut off.
LastNAll(s, n) == s

\* Python's s[-n:].
LastN(s, n) == IF Len(s) <= n THEN s ELSE SubSeq(s, Len(s) - n + 1, Len(s))

Range(s) == {s[i] : i \in 1..Len(s)}

\* [x for x in s if x in keep], in order.
Filter(s, keep) == SelectSeq(s, LAMBDA x : x \in keep)

\* The newest-first list h, h-1, ..., h-n+1 of n sale records with ids.
Window(h, n) == [i \in 1..n |-> h - i + 1]

\* ---------------------------------------------------------- file system
\* A file is absent, holds a complete JSON document, or holds bytes that do
\* not parse (a partial write, an empty file).
Absent == [kind |-> "absent", data |-> <<>>]
Partial == [kind |-> "partial", data |-> <<>>]
JsonFile(d) == [kind |-> "json", data |-> d]
Exists(f) == f.kind # "absent"

\* ------------------------------------------------------- SalesStorage
\* The storage map: {} or {'last_sale_ids': ids, 'last_updated': upd}.
EmptyMap == [has |-> FALSE, ids |-> <<>>, upd |-> 0]
TrackedMap(ids, t) == [has |-> TRUE, ids |-> ids, upd |-> t]

\* Mutant of LoadResult: without the handler, the error json.load raises on
\* a file that does not parse leaves _load_data.
LoadResultUnhandled(fs) ==
    IF fs.main.kind = "json" THEN [raised |-> FALSE, data |-> fs.main.data]
    ELSE IF fs.main.kind = "partial" THEN [raised |-> TRUE, data |-> EmptyMap]
    ELSE [raised |-> FALSE, data |-> EmptyMap]

\* _load_data: the parsed file when it exists and parses; {} when it is
\* missing, and {} from the handler when reading or parsing it raises.
LoadResult(fs) ==
    IF fs.main.kind = "json" THEN [raised |-> FALSE, data |-> fs.main.data]
    ELSE [raised |-> FALSE, data |-> EmptyMap]

\* What SalesStorage() holds after _load_data.
LoadData(fs) == LoadResult(fs).data

NoFaults == [rename |-> "ok", write |-> "ok", remove |-> "ok", restore |-> "ok"]

\* os.rename(storage_file, backup_file), guarded by os.path.exists.
RenameToBackup(fs) ==
    IF Exists(fs.main) THEN [main |-> Absent, backup |-> fs.main] ELSE fs

\* open(storage_file, 'w') and json.dump, completed.
WriteNew(fs, d) == [fs EXCEPT !.main = JsonFile(d)]

\* open(storage_file, 'w') succeeded and the dump stopped part-way.
WritePartial(fs) == [fs EXCEPT !.main = Partial]

\* Mutant of RemoveBackup: the backup is not removed after the write.
RemoveBackupSkipped(fs) == fs

\* os.remove(backup_file), guarded by os.path.exists.
RemoveBackup(fs) == [fs EXCEPT !.backup = Absent]

\* Mutant of RestoreBackup: the handler logs the error and restores nothing.
RestoreBackupNever(fs, F) == fs

\* The except branch: rename the backup back when there is one; a failure of
\* that rename is swallowed (bare except: pass).
RestoreBackup(fs, F) ==
    IF Exists(fs.backup) /\ F.restore = "ok"
    THEN [main |-> fs.backup, backup |-> Absent]
    ELSE fs

\* _save_data under the fault choice F: which of its file operations raise.
SaveData(fs, d, F) ==
    IF Exists(fs.main) /\ F.rename = "fail" THEN RestoreBackup(fs, F)
    ELSE LET a == RenameToBackup(fs) IN
         IF F.write = "open" THEN RestoreBackup(a, F)
         ELSE IF F.write = "partial" THEN RestoreBackup(WritePartial(a), F)
         ELSE LET b == WriteNew(a, d) IN
              IF Exists(b.backup) /\ F.remove = "fail" THEN RestoreBackup(b, F)
              ELSE RemoveBackup(b)

\* Whether _save_data's try block raised under F (the handler ran).
SaveRaised(fs, F) ==
    \/ Exists(fs.main) /\ F.rename = "fail"
    \/ F.write # "ok"
    \/ Exists(RenameToBackup(fs).backup) /\ F.remove = "fail"

\* The files as a process stopping inside _save_data leaves them: after the
\* rename to the backup, with the new file part-written, or with the new
\* file written and the backup not yet removed.
CrashedSave(fs, d, point) ==
    IF point = "after_backup" THEN RenameToBackup(fs)
    ELSE IF point = "during_write" THEN WritePartial(RenameToBackup(fs))
    ELSE WriteNew(RenameToBackup(fs), d)

\* get_last_sale_ids: the tracked ids, [] when none are stored.
GetLastSaleIds(d) == IF d.has THEN d.ids ELSE <<>>

\* set_last_sale_ids: a non-empty list is cut to MaxTracked entries and
\* stored with the time of the update; an empty list changes nothing.
SetLastSaleIds(d, ids, t) ==
    IF ids # <<>> THEN TrackedMap(Take(ids, MaxTracked), t) ELSE d

\* ----------------------------------------------------- DiscordNotifier
\* What one session.post yields: a transport error (no response object) or
\* an HTTP response with a status, a body and a Retry-After header
\* (NoHeader when the header is missing).
NoHeader == -1
TransportError == [kind |-> "error", status |-> 0, body |-> "none", retryAfter |-> NoHeader]
Http(st, body, ra) == [kind |-> "http", status |-> st, body |-> body, retryAfter |-> ra]

\* response.raise_for_status() raises HTTPError on a 4xx or 5xx status.
RaisesForStatus(r) == r.status >= 400 /\ r.status < 600

\* The truth value of `response` in `if response and ...`: None is false, and
\* a requests.Response is true exactly when it is ok (no 4xx/5xx status).
ResponseTruthy(r) == r.kind = "http" /\ ~RaisesForStatus(r)

\* 'cloudflare' in response.text.lower() or 'html' in response.text.lower()
HasBlockMarker(r) == r.body \in {"cloudflare", "html"}

\* min(int(response.headers.get('Retry-After', '5')), 10)
WaitTime(r) ==
    Min(IF r.retryAfter = NoHeader THEN DefaultRetryAfter ELSE r.retryAfter, MaxWait)

\* Whether one post ends without raising.
PostSucceeds(r) == r.kind = "http" /\ ~RaisesForStatus(r)

\* The branch of the HTTPError handler taken for a rate limit.
IsRateLimitBranch(r) == ResponseTruthy(r) /\ r.status = 429

\* send_webhook(payload) when the first post yields r1 and a second post,
\* if one is made, yields r2: the value returned, the number of posts made
\* and the waits slept.
SendWebhook(r1, r2) ==
    IF PostSucceeds(r1) THEN [result |-> TRUE, posts |-> 1, waits |-> <<>>]
    ELSE IF r1.kind = "error" THEN [result |-> FALSE, posts |-> 1, waits |-> <<>>]
    ELSE IF IsRateLimitBranch(r1)
         THEN IF HasBlockMarker(r1)
              THEN [result |-> FALSE, posts |-> 1, waits |-> <<>>]
              ELSE [result |-> PostSucceeds(r2), posts |-> 2, waits |-> <<WaitTime(r1)>>]
         ELSE [result |-> FALSE, posts |-> 1, waits |-> <<>>]

\* -------------------------------------------------- AlternativeNotifier
\* The record save_json_notification stores for a notification.
HistoryRecord(id, t) ==
    [sale_id |-> id, notification_time |-> t, status |-> "logged_due_to_cloudflare_block"]

\* save_json_notification: load the history when the file exists (a file
\* that does not parse raises, and the error is swallowed: nothing is
\* written), append, keep the last MaxHistory, write.
SaveJsonNotification(j, id, t) ==
    IF j.kind = "partial" THEN j
    ELSE JsonFile(LastN(Append(j.data, HistoryRecord(id, t)), MaxHistory))

\* with open(self.log_file, 'a'): one block appended, the file created when
\* missing.
AppendLog(l, id) == [exists |-> TRUE, lines |-> Append(l.lines, id)]

\* log_sale_notification(sale_data)
LogSaleNotification(a, id, t) ==
    [a EXCEPT !.log = AppendLog(a.log, id),
              !.json = SaveJsonNotification(a.json, id, t)]

\* get_pending_notifications: the history, [] when missing or unreadable.
GetPendingNotifications(a) == IF a.json.kind = "json" THEN a.json.data ELSE <<>>

NoLog == [exists |-> FALSE, lines |-> <<>>]

\* clear_notifications: both files removed.
ClearNotificationsOf(a) == [a EXCEPT !.log = NoLog, !.json = Absent]

\* clear_logs_daily on date d: when the marker differs from d, truncate the
\* files that exist and write d to the marker.
ClearLogsDailyOf(a, d) ==
    IF a.marker # d
    THEN [log |-> IF a.log.exists THEN [exists |-> TRUE, lines |-> <<>>] ELSE a.log,
          json |-> IF Exists(a.json) THEN Partial ELSE a.json,
          marker |-> d]
    ELSE a

\* -------------------------------------------------------------- Config
\* What Config() reads from the environment: a setting is "" when its
\* variable is unset or empty; numeric tells whether int() accepts the text
\* of CHECK_INTERVAL, and check_interval is then its value.
ConfigOf(key, secret, url, interval, numeric) ==
    [gameflip_api_key |-> key, gameflip_totp_secret |-> secret,
     discord_webhook_url |-> url, check_interval |-> interval, numeric |-> numeric]

\* Config() raises ValueError when CHECK_INTERVAL is not the text of an integer.
ConfigRaises(c) == ~c.numeric

ErrorIf(cond, name) == IF cond THEN <<name>> ELSE <<>>

\* Mutant of Validate: the first violation found is reported and raised.
ValidateFirstOnly(c) ==
    LET all == ErrorIf(c.gameflip_api_key = "", "GAMEFLIP_API_KEY")
               \o ErrorIf(c.gameflip_totp_secret = "", "GAMEFLIP_TOTP_SECRET")
               \o ErrorIf(c.discord_webhook_url = "", "DISCORD_WEBHOOK_URL")
               \o ErrorIf(c.check_interval < MinInterval, "CHECK_INTERVAL")
    IN [errors |-> Take(all, 1), raised |-> all # <<>>]

\* validate(): the errors logged, each naming its setting, and whether
\* ValueError was raised.
Validate(c) ==
    LET all == ErrorIf(c.gameflip_api_key = "", "GAMEFLIP_API_KEY")
               \o ErrorIf(c.gameflip_totp_secret = "", "GAMEFLIP_TOTP_SECRET")
               \o ErrorIf(c.discord_webhook_url = "", "DISCORD_WEBHOOK_URL")
               \o ErrorIf(c.check_interval < MinInterval, "CHECK_INTERVAL")
    IN [errors |-> all, raised |-> all # <<>>]

\* ------------------------------------------------------- authenticate
\* What the profile lookup yields: a transport error, or a response with a
\* status whose body is or is not the JSON object the code reads.
ProfileError == [kind |-> "error", status |-> 0, parses |-> FALSE]
ProfileHttp(st, parses) == [kind |-> "http", status |-> st, parses |-> parses]
NoProfile == [kind |-> "none", status |-> 0, parses |-> FALSE]

\* Mutant of Authenticate: any response from the server counts as success.
AuthenticateAnyResponse(r) == r.kind = "http"

\* authenticate(): True on a 200 whose body is read without an error; any
\* exception is caught and gives False.
Authenticate(r) == r.kind = "http" /\ r.status = 200 /\ r.parses

\* No request issued yet.
NoRequests == [auth |-> 0, profile |-> NoProfile, fetched |-> FALSE, posted |-> FALSE]

\* ----------------------------------------------------------- the state
VARIABLES
    pc,          \* where main() is: "main", "construct", "failed", and in run(): "start",
                 \* "cycle", "notify", "idle", "stopped", "returned"
    authenticated, \* self.authenticated, the result of authenticate()
    announced,   \* whether the startup notification was posted
    data,        \* SalesStorage.data
    fs,          \* the storage file and its .backup
    alt,         \* the fallback log, the JSON history and the last-cleared marker
    today,       \* the current UTC date
    now,         \* the number of the current cycle (the time written as last_updated)
    cyc,         \* what the current (or last) cycle read, selected and did
    alive,       \* whether the process holding SalesStorage is running
    sv,          \* the last storage operation: what it was given and what it met
    wh,          \* one send_webhook call: the responses it meets and what it returned
    fails,       \* how many webhook deliveries of the monitor have failed so far
    conf,        \* the settings Config() read from the environment
    errors,      \* the settings Config.validate reported, in the order logged
    status,      \* what main() returned, NotReturned while it runs
    net,         \* the requests issued so far: profile lookups, sale fetches, webhook posts
    kept         \* the ids stored as tracked earlier and present in every candidate list since

vars == <<pc, authenticated, announced, data, fs, alt, today, now, cyc, alive, sv, wh, fails,
          conf, errors, status, net, kept>>

\* -------------------------------------------------------------- inputs
SmallSales == NotADict..MaxId

RECURSIVE SeqsUpTo(_, _)
\* All sequences over S of length at most n.
SeqsUpTo(S, n) ==
    IF n = 0 THEN {<<>>}
    ELSE LET shorter == SeqsUpTo(S, n - 1) IN
         shorter \cup {Append(q, x) : q \in shorter, x \in S}

\* Lengths just past the notification cap, the tracking window and the
\* storage cap.
LongLens == {MaxNotify + Over, TrackWindow + Over, MaxTracked + Over}

\* The sale lists a fetch may return: every short list, and newest-first
\* runs of new sales, overlapping the short ids or not.
FetchedLists ==
    SeqsUpTo(SmallSales, 2)
        \cup {Window(n + MaxId, n) : n \in LongLens}
        \cup {Window(MaxNotify + Over, MaxNotify + Over)}

\* What the monitor's posts may meet: success, a plain rate limit followed
\* by success, a transport error.
Delivered204 == Http(204, "none", NoHeader)
RateLimited429 == Http(429, "json", 1)
MonitorResponses ==
    {<<Delivered204, Delivered204>>, <<RateLimited429, Delivered204>>,
     <<TransportError, TransportError>>}

\* The environments the monitor is started in: a valid one, and ones that
\* violate a setting or hold a CHECK_INTERVAL that is no number.
ValidConfig == ConfigOf("key", "secret", "url", 2 * MinInterval, TRUE)
MonitorConfigs ==
    {ValidConfig,
     ConfigOf("", "secret", "url", 2 * MinInterval, TRUE),
     ConfigOf("key", "", "", MinInterval - 1, TRUE),
     ConfigOf("key", "secret", "url", 0, FALSE)}

\* What the profile lookup of authenticate() may meet.
ProfileResponses ==
    {ProfileError, ProfileHttp(200, TRUE), ProfileHttp(200, FALSE),
     ProfileHttp(401, TRUE), ProfileHttp(500, FALSE)}

\* ------------------------------------------------- process_new_sales
\* sales[:20] if sales else []
SalesToTrack(sales) == Take(sales, TrackWindow)

\* [sale.get('id') for sale in sales_to_track if sale.get('id')]
CurrentSaleIds(sales) == Filter(SalesToTrack(sales), Range(sales) \ {NotADict, NoId})

\* sale.get raises on an element of sales_to_track that is no record.
DetectRaises(sales) == NotADict \in Range(SalesToTrack(sales))

\* Mutant of IsFirstRun: the first-run test is left out.
IsFirstRunNever(last, sales) == FALSE

\* Mutant of IsFirstRun: the test for an empty tracked set is left out.
IsFirstRunAlways(last, sales) == CurrentSaleIds(sales) # <<>>

\* The first-run test: nothing tracked and something to track.
IsFirstRun(last, sales) == last = {} /\ CurrentSaleIds(sales) # <<>>

\* Mutant of NewSales: the test against the tracked ids is left out.
NewSalesUnfiltered(last, sales) ==
    Filter(SalesToTrack(sales), Range(sales) \ {NotADict, NoId})

\* The sales of sales_to_track with an id that is not tracked, in order.
NewSales(last, sales) ==
    Filter(SalesToTrack(sales), Range(sales) \ ({NotADict, NoId} \cup last))

\* Mutant of CapNotify: no cap.
CapNotifyNone(new) == new

\* new_sales[:5]
CapNotify(new) == Take(new, MaxNotify)

IdleCycle ==
    [fetched |-> <<>>, before |-> <<>>, first |-> FALSE, stored |-> FALSE,
     newSel |-> <<>>, pending |-> <<>>, done |-> <<>>, count |-> -1,
     raised |-> FALSE, fetchFailed |-> FALSE, guarded |-> {}, fault |-> NoFaults]

NoStorageOp ==
    [op |-> "none", point |-> "none", pre |-> [main |-> Absent, backup |-> Absent],
     preData |-> EmptyMap, new |-> EmptyMap, F |-> NoFaults, raised |-> FALSE]

NoWebhookCall ==
    [phase |-> "none", r1 |-> TransportError, r2 |-> TransportError,
     out |-> [result |-> FALSE, posts |-> 0, waits |-> <<>>]]

\* ---------------------------------------------------------------- Init
InitTracked == {Window(k, k) : k \in 0..MaxId}

Init ==
    /\ pc = "main"
    /\ authenticated = FALSE
    /\ announced = FALSE
    /\ \E t \in InitTracked :
         fs = [main |-> IF t = <<>> THEN Absent ELSE JsonFile(TrackedMap(t, 0)),
               backup |-> Absent]
    /\ data = LoadData(fs)
    /\ alt = [log |-> NoLog, json |-> Absent, marker |-> 0]
    /\ today = 1
    /\ now = 0
    /\ cyc = IdleCycle
    /\ alive = TRUE
    /\ sv = NoStorageOp
    /\ wh = NoWebhookCall
    /\ fails = 0
    /\ conf \in MonitorConfigs
    /\ errors = <<>>
    /\ status = NotReturned
    /\ net = NoRequests
    /\ kept = Range(GetLastSaleIds(data))

\* ------------------------------------------------------------- actions
\* Mutant of MainStart: the errors are logged and the start goes on.
MainStartUnchecked ==
    /\ pc = "main"
    /\ errors' = IF ConfigRaises(conf) THEN errors ELSE Validate(conf).errors
    /\ pc' = "construct"
    /\ UNCHANGED <<authenticated, announced, data, fs, alt, today, now, cyc, alive, sv, wh,
                   fails, conf, status, net, kept>>

\* main(), up to the construction of the monitor: Config() and validate();
\* an exception of either makes main return 1.
MainStart ==
    /\ pc = "main"
    /\ IF ConfigRaises(conf)
       THEN /\ pc' = "failed"
            /\ status' = 1
            /\ UNCHANGED errors
       ELSE /\ errors' = Validate(conf).errors
            /\ IF Validate(conf).raised
               THEN pc' = "failed" /\ status' = 1
               ELSE pc' = "construct" /\ UNCHANGED status
    /\ UNCHANGED <<authenticated, announced, data, fs, alt, today, now, cyc, alive, sv, wh,
                   fails, conf, net, kept>>

\* GameflipMonitor(): the notifiers, the store and the session are set up
\* (an exception there makes main return 1), then authenticate() issues the
\* profile lookup, which yields r.
Construct(setupOk, r) ==
    /\ pc = "construct"
    /\ IF setupOk
       THEN /\ pc' = "start"
            /\ authenticated' = Authenticate(r)
            /\ net' = [net EXCEPT !.auth = @ + 1, !.profile = r]
            /\ UNCHANGED status
       ELSE /\ pc' = "failed"
            /\ status' = 1
            /\ UNCHANGED <<authenticated, net>>
    /\ UNCHANGED <<announced, data, fs, alt, today, now, cyc, alive, sv, wh, fails, conf,
                   errors, kept>>

\* run(), up to the loop: return when not authenticated, else post the
\* startup notification (its outcome is ignored) and enter the first cycle.
RunStart ==
    /\ pc = "start"
    /\ IF authenticated
       THEN /\ pc' = "cycle"
            /\ announced' = TRUE
            /\ now' = 1
            /\ net' = [net EXCEPT !.posted = TRUE]
            /\ UNCHANGED status
       ELSE /\ pc' = "returned"
            /\ status' = 0
            /\ UNCHANGED <<announced, now, net>>
    /\ cyc' = IdleCycle
    /\ UNCHANGED <<authenticated, data, fs, alt, today, alive, sv, wh, fails, conf, errors, kept>>

\* run_monitor_cycle up to the notification loop of process_new_sales:
\* get_recent_sales (an empty list when the fetch fails), the early return
\* on an empty list, the detection and the update of the tracked ids, whose
\* save meets the failures of file operations that F tells.
DetectPass(ok, sales, F) ==
    LET got == IF ok THEN sales ELSE <<>>
        lastIds == GetLastSaleIds(data)
        last == Range(lastIds)
        guarded == {x \in kept : x \in Range(SalesToTrack(got))}
        base == [IdleCycle EXCEPT !.fetched = got, !.before = lastIds,
                                  !.fetchFailed = ~ok, !.guarded = guarded,
                                  !.fault = F]
    IN
    /\ pc = "cycle"
    /\ pc' = "notify"
    /\ net' = [net EXCEPT !.fetched = TRUE]
    /\ IF got = <<>> THEN
            /\ cyc' = base
            /\ UNCHANGED <<data, fs>>
       ELSE IF DetectRaises(got) THEN
            /\ cyc' = [base EXCEPT !.raised = TRUE]
            /\ UNCHANGED <<data, fs>>
       ELSE IF IsFirstRun(last, got) THEN
            /\ data' = SetLastSaleIds(data, CurrentSaleIds(got), now)
            /\ fs' = SaveData(fs, data', F)
            /\ cyc' = [base EXCEPT !.first = TRUE, !.stored = TRUE]
       ELSE IF NewSales(last, got) # <<>> THEN
            /\ data' = SetLastSaleIds(data, CurrentSaleIds(got), now)
            /\ fs' = SaveData(fs, data', F)
            /\ cyc' = [base EXCEPT !.stored = TRUE,
                                   !.newSel = NewSales(last, got),
                                   !.pending = CapNotify(NewSales(last, got))]
       ELSE
            /\ cyc' = base
            /\ UNCHANGED <<data, fs>>
    /\ kept' = guarded \cup (IF cyc'.stored THEN Range(GetLastSaleIds(data')) ELSE {})
    /\ UNCHANGED <<authenticated, announced, alt, today, now, alive, sv, wh, fails, conf, errors, status>>

\* The pass of a cycle whose file operations all succeed.
FetchAndDetect(ok, sales) == DetectPass(ok, sales, NoFaults)

\* send_sale_notification for the next selected sale: post to the webhook,
\* and log to the fallback files when the post fails.
NotifyOne(r1, r2) ==
    LET id == Head(cyc.pending)
        sent == SendWebhook(r1, r2).result
        after == IF sent THEN alt ELSE LogSaleNotification(alt, id, now)
    IN
    /\ pc = "notify"
    /\ cyc.pending # <<>>
    /\ sent \/ fails < MaxFailures
    /\ fails' = IF sent THEN fails ELSE fails + 1
    /\ alt' = after
    /\ cyc' = [cyc EXCEPT !.pending = Tail(cyc.pending),
                          !.done = Append(cyc.done,
                              [id |-> id, delivered |-> sent, was |-> alt, is |-> after])]
    /\ net' = [net EXCEPT !.posted = TRUE]
    /\ UNCHANGED <<pc, authenticated, announced, data, fs, today, now, alive, sv, wh, conf,
                   errors, status, kept>>

\* Mutant of CycleReturn: run() returns after the cycle instead of sleeping.
CycleReturnStops ==
    /\ pc = "notify"
    /\ cyc.pending = <<>>
    /\ pc' = "returned"
    /\ cyc' = [cyc EXCEPT !.count = IF cyc.raised THEN 0 ELSE Len(cyc.done)]
    /\ UNCHANGED <<authenticated, announced, data, fs, alt, today, now, alive, sv, wh, fails, conf, errors, status, net, kept>>

\* run_monitor_cycle returns (0 from its handler when the pass raised, else
\* what process_new_sales returned) and run() sleeps.
CycleReturn ==
    /\ pc = "notify"
    /\ cyc.pending = <<>>
    /\ pc' = "idle"
    /\ cyc' = [cyc EXCEPT !.count = IF cyc.raised THEN 0 ELSE Len(cyc.done)]
    /\ UNCHANGED <<authenticated, announced, data, fs, alt, today, now, alive, sv, wh, fails, conf, errors, status, net, kept>>

\* time.sleep(check_interval) returns: the next cycle begins.
TimerElapse ==
    /\ pc = "idle"
    /\ now < MaxCycles
    /\ pc' = "cycle"
    /\ now' = now + 1
    /\ cyc' = IdleCycle
    /\ UNCHANGED <<authenticated, announced, data, fs, alt, today, alive, sv, wh, fails, conf, errors, status, net, kept>>

\* KeyboardInterrupt, in a cycle or in the sleep: the loop breaks, run()
\* returns and main returns 0.
Interrupt ==
    /\ pc \in {"cycle", "notify", "idle"}
    /\ pc' = "stopped"
    /\ status' = 0
    /\ UNCHANGED <<authenticated, announced, data, fs, alt, today, now, cyc, alive, sv, wh,
                   fails, conf, errors, net, kept>>

\* The UTC date changes.
DayChange ==
    /\ pc = "idle"
    /\ today <= MaxDay
    /\ today' = today + 1
    /\ UNCHANGED <<pc, authenticated, announced, data, fs, alt, now, cyc, alive, sv, wh, fails, conf, errors, status, net, kept>>

\* clear_logs_daily()
ClearLogsDaily ==
    /\ pc = "idle"
    /\ alt' = ClearLogsDailyOf(alt, today)
    /\ UNCHANGED <<pc, authenticated, announced, data, fs, today, now, cyc, alive, sv, wh, fails, conf, errors, status, net, kept>>

\* clear_notifications()
ClearNotifications ==
    /\ pc = "idle"
    /\ alt' = ClearNotificationsOf(alt)
    /\ UNCHANGED <<pc, authenticated, announced, data, fs, today, now, cyc, alive, sv, wh, fails, conf, errors, status, net, kept>>

Next ==
    \/ MainStart
    \/ \E setupOk \in BOOLEAN, r \in ProfileResponses : Construct(setupOk, r)
    \/ RunStart
    \/ \E ok \in BOOLEAN, sales \in FetchedLists : FetchAndDetect(ok, sales)
    \/ \E rr \in MonitorResponses : NotifyOne(rr[1], rr[2])
    \/ CycleReturn
    \/ TimerElapse
    \/ Interrupt
    \/ ClearLogsDaily
    \/ ClearNotifications

Spec == Init /\ [][Next]_vars

\* ------------------------------------------------------------- claims
\* What the claims speak of, read off the state.
HasId(x) == x > 0
IdsOf(s) == SelectSeq(s, HasId)
Prefix(s, n) == SubSeq(s, 1, IF Len(s) < n THEN Len(s) ELSE n)
MemoryIds == IF data.has THEN data.ids ELSE <<>>
DiskIds == IF fs.main.kind = "json" /\ fs.main.data.has THEN fs.main.data.ids ELSE <<>>
\* The ids process_new_sales handed to send_sale_notification so far, and
\* those it still holds.
SentIds == [i \in 1..Len(cyc.done) |-> cyc.done[i].id]
SelectedIds == SentIds \o cyc.pending
\* A detection pass over sale records has run to its end in this cycle.
Detected ==
    /\ pc \in {"notify", "idle", "stopped"}
    /\ cyc.fetched # <<>>
    /\ \A i \in 1..Len(cyc.fetched) : cyc.fetched[i] # NotADict
Untracked(s, tracked) == SelectSeq(s, LAMBDA x : HasId(x) /\ x \notin Range(tracked))

\* C1 (as claimed): on a first run (nothing tracked, N > 0 sales fetched) no
\* notification is sent, zero new sales are returned, and the persisted
\* tracked ids are the ids of the first min(N, 100) fetched sales.
C1_FirstRunFirst100 ==
    (Detected /\ cyc.before = <<>>) =>
        /\ SelectedIds = <<>>
        /\ (pc = "idle" => cyc.count = 0)
        /\ MemoryIds = IdsOf(Prefix(cyc.fetched, MaxTracked))
        /\ DiskIds = IdsOf(Prefix(cyc.fetched, MaxTracked))

\* C1 (amended): on a first run no notification is sent, zero new sales are
\* returned, and the persisted tracked ids are the ids carried by the first
\* min(N, 20) fetched sales, in fetched order.
C1_FirstRunFirst20 ==
    (Detected /\ cyc.before = <<>>) =>
        /\ SelectedIds = <<>>
        /\ (pc = "idle" => cyc.count = 0)
        /\ MemoryIds = IdsOf(Prefix(cyc.fetched, TrackWindow))
        /\ DiskIds = IdsOf(Prefix(cyc.fetched, TrackWindow))

\* C1 witness: a first run over more sales than the window holds has stored
\* its ids and returned.
C1_Witness ==
    /\ pc = "idle"
    /\ cyc.first
    /\ cyc.before = <<>>
    /\ Len(cyc.fetched) > TrackWindow
    /\ Len(DiskIds) = TrackWindow

\* C2: with a non-empty tracked set T, the sales selected as new are the
\* candidates of the fetched list whose id is not in T, in fetched order, and
\* when there are any the persisted tracked ids become the candidate ids of
\* the fetched list, replacing T.
C2_SteadyStateDetection ==
    (Detected /\ cyc.before # <<>>) =>
        /\ cyc.newSel = Untracked(Prefix(cyc.fetched, TrackWindow), cyc.before)
        /\ cyc.newSel # <<>> =>
              /\ MemoryIds = IdsOf(Prefix(cyc.fetched, TrackWindow))
              /\ DiskIds = IdsOf(Prefix(cyc.fetched, TrackWindow))

\* C2 witness: a fetched list holding tracked and untracked sales was
\* processed, and a tracked id that was not fetched again is forgotten.
C2_Witness ==
    /\ Detected
    /\ cyc.before # <<>>
    /\ cyc.newSel # <<>>
    /\ Range(cyc.before) \cap Range(cyc.fetched) # {}
    /\ Range(cyc.before) \ Range(DiskIds) # {}
    /\ Len(cyc.newSel) < Len(IdsOf(cyc.fetched))

\* C3 (as claimed): in a steady-state cycle where k > 5 fetched sales are not
\* tracked, the first 5 of them are sent for notification and the ids of all
\* k are in the persisted tracked set afterwards.
C3_BurstCapAllFetched ==
    (Detected /\ cyc.before # <<>> /\ Len(Untracked(cyc.fetched, cyc.before)) > MaxNotify) =>
        /\ SelectedIds = Prefix(Untracked(cyc.fetched, cyc.before), MaxNotify)
        /\ (pc = "idle" => SentIds = Prefix(Untracked(cyc.fetched, cyc.before), MaxNotify))
        /\ Range(Untracked(cyc.fetched, cyc.before)) \subseteq Range(MemoryIds)
        /\ Range(Untracked(cyc.fetched, cyc.before)) \subseteq Range(DiskIds)

\* C3 (amended): in a steady-state cycle where k > 5 of the first 20 fetched
\* sales are not tracked, the first 5 of them are sent for notification and
\* the ids of all k are in the persisted tracked set afterwards.
C3_BurstCapInWindow ==
    LET new == Untracked(Prefix(cyc.fetched, TrackWindow), cyc.before) IN
    (Detected /\ cyc.before # <<>> /\ Len(new) > MaxNotify) =>
        /\ SelectedIds = Prefix(new, MaxNotify)
        /\ (pc = "idle" => SentIds = Prefix(new, MaxNotify))
        /\ Range(new) \subseteq Range(MemoryIds)
        /\ Range(new) \subseteq Range(DiskIds)

\* C3 witness: a cycle with more than 5 new sales has ended: 5 were sent and
\* an id that was not sent is tracked.
C3_Witness ==
    /\ pc = "idle"
    /\ cyc.before # <<>>
    /\ Len(cyc.newSel) > MaxNotify
    /\ Len(SentIds) = MaxNotify
    /\ Range(cyc.newSel) \ Range(SentIds) # {}
    /\ Range(cyc.newSel) \subseteq Range(DiskIds)

\* C4: the tracked-id sequence, in memory and on disk, never holds more than
\* 100 ids, also after a fetch of more than 100 sales.
C4_TrackedAtMost100 ==
    /\ Len(MemoryIds) <= MaxTracked
    /\ Len(DiskIds) <= MaxTracked

\* C4 witness: a fetched list of more than 100 sales was processed and its
\* ids were stored.
C4_Witness ==
    /\ Len(cyc.fetched) > MaxTracked
    /\ cyc.stored
    /\ DiskIds # <<>>
    /\ DiskIds = MemoryIds

\* ------------------------------------------------ SalesStorage alone
\* The store driven directly: sets and resets whose file operations may
\* fail, a process that stops inside _save_data, and a fresh SalesStorage
\* loading what is on disk.
FaultChoices ==
    [rename : {"ok", "fail"}, write : {"ok", "open", "partial"},
     remove : {"ok", "fail"}, restore : {"ok", "fail"}]

CrashPoints == {"after_backup", "during_write", "after_write"}

StoreIdLists ==
    {Window(k, k) : k \in 0..MaxId} \cup {Window(MaxTracked + Over, MaxTracked + Over)}

InitStore ==
    /\ pc = "store"
    /\ authenticated = TRUE
    /\ announced = FALSE
    /\ \E t \in InitTracked :
         fs = [main |-> IF t = <<>> THEN Absent ELSE JsonFile(TrackedMap(t, 0)),
               backup |-> Absent]
    /\ data = LoadData(fs)
    /\ alt = [log |-> NoLog, json |-> Absent, marker |-> 0]
    /\ today = 1
    /\ now = 0
    /\ cyc = IdleCycle
    /\ alive = TRUE
    /\ sv = NoStorageOp
    /\ wh = NoWebhookCall
    /\ fails = 0
    /\ conf = ValidConfig
    /\ errors = <<>>
    /\ status = NotReturned
    /\ net = NoRequests
    /\ kept = {}

\* set_last_sale_ids(ids), the file operations of its save failing as F says.
StoreSet(ids, F) ==
    /\ alive
    /\ now < MaxStoreOps
    /\ now' = now + 1
    /\ data' = SetLastSaleIds(data, ids, now')
    /\ fs' = IF ids # <<>> THEN SaveData(fs, data', F) ELSE fs
    /\ sv' = [op |-> "set", point |-> "none", pre |-> fs, preData |-> data,
              new |-> data', F |-> F, raised |-> ids # <<>> /\ SaveRaised(fs, F)]
    /\ UNCHANGED <<pc, authenticated, announced, alt, today, cyc, alive, wh, fails, conf, errors, status, net, kept>>

\* reset()
StoreReset(F) ==
    /\ alive
    /\ now < MaxStoreOps
    /\ now' = now + 1
    /\ data' = EmptyMap
    /\ fs' = SaveData(fs, EmptyMap, F)
    /\ sv' = [op |-> "reset", point |-> "none", pre |-> fs, preData |-> data,
              new |-> EmptyMap, F |-> F, raised |-> SaveRaised(fs, F)]
    /\ UNCHANGED <<pc, authenticated, announced, alt, today, cyc, alive, wh, fails, conf, errors, status, net, kept>>

\* The process stops inside the _save_data of set_last_sale_ids(ids).
StoreCrash(ids, point) ==
    /\ alive
    /\ now < MaxStoreOps
    /\ ids # <<>>
    /\ now' = now + 1
    /\ alive' = FALSE
    /\ data' = EmptyMap
    /\ fs' = CrashedSave(fs, SetLastSaleIds(data, ids, now'), point)
    /\ sv' = [op |-> "crash", point |-> point, pre |-> fs, preData |-> data,
              new |-> SetLastSaleIds(data, ids, now'), F |-> NoFaults, raised |-> FALSE]
    /\ UNCHANGED <<pc, authenticated, announced, alt, today, cyc, wh, fails, conf, errors, status, net, kept>>

\* A new process constructs SalesStorage: self.data = self._load_data().
StoreLoad ==
    /\ ~alive
    /\ alive' = ~LoadResult(fs).raised
    /\ data' = LoadData(fs)
    /\ sv' = [sv EXCEPT !.op = "load", !.raised = LoadResult(fs).raised]
    /\ UNCHANGED <<pc, authenticated, announced, fs, alt, today, now, cyc, wh, fails, conf, errors, status, net, kept>>

NextStore ==
    \/ \E ids \in StoreIdLists, F \in FaultChoices : StoreSet(ids, F)
    \/ \E F \in FaultChoices : StoreReset(F)
    \/ \E ids \in StoreIdLists, point \in CrashPoints : StoreCrash(ids, point)
    \/ StoreLoad

SpecStore == InitStore /\ [][NextStore]_vars

\* --------------------------------------------- DiscordNotifier alone
WebhookStatuses == {200, 204, 400, 404, 429, 500}
WebhookBodies == {"json", "cloudflare", "html"}
FirstResponses ==
    {TransportError} \cup
    {Http(st, b, ra) : st \in WebhookStatuses, b \in WebhookBodies,
                       ra \in NoHeader..MaxRetryAfter}
SecondResponses ==
    {TransportError, Http(204, "json", NoHeader), Http(429, "json", 1), Http(500, "html", NoHeader)}

InitWebhook ==
    /\ pc = "webhook"
    /\ authenticated = TRUE
    /\ announced = FALSE
    /\ fs = [main |-> Absent, backup |-> Absent]
    /\ data = EmptyMap
    /\ alt = [log |-> NoLog, json |-> Absent, marker |-> 0]
    /\ today = 1
    /\ now = 0
    /\ cyc = IdleCycle
    /\ alive = TRUE
    /\ sv = NoStorageOp
    /\ \E r1 \in FirstResponses, r2 \in SecondResponses :
         wh = [NoWebhookCall EXCEPT !.phase = "ready", !.r1 = r1, !.r2 = r2]
    /\ fails = 0
    /\ conf = ValidConfig
    /\ errors = <<>>
    /\ status = NotReturned
    /\ net = NoRequests
    /\ kept = {}

\* send_webhook(payload) runs against the responses chosen.
WebhookSend ==
    /\ wh.phase = "ready"
    /\ wh' = [wh EXCEPT !.phase = "done", !.out = SendWebhook(wh.r1, wh.r2)]
    /\ UNCHANGED <<pc, authenticated, announced, data, fs, alt, today, now, cyc, alive, sv, fails, conf, errors, status, net, kept>>

NextWebhook == WebhookSend

SpecWebhook == InitWebhook /\ [][NextWebhook]_vars

\* C5: when the process stops in _save_data after the existing file was
\* renamed to the backup and before the new file is written, a fresh
\* SalesStorage loads the state the file held before the write.
C5_LoadAfterCrashRecovers ==
    (alive /\ sv.op = "load" /\ sv.point = "after_backup" /\ Exists(sv.pre.main)) =>
        data = LoadData(sv.pre)

\* Exactly one of the three steps of _save_data is set to fail, and the
\* restoring rename is not.
OneFault(F) ==
    /\ F.restore = "ok"
    /\ Cardinality({k \in {"rename", "write", "remove"} : F[k] # "ok"}) = 1

\* C6: when a step of _save_data fails (the rename to the backup, the write,
\* the removal of the backup), the file on return holds the complete
\* previous contents or the complete new contents: it is never part-written,
\* and never missing when there was a file before the call.
C6_SaveFailureLeavesOldOrNew ==
    (sv.op \in {"set", "reset"} /\ sv.raised /\ OneFault(sv.F)) =>
        \/ fs.main = JsonFile(sv.new)
        \/ Exists(sv.pre.main) /\ fs.main = sv.pre.main
        \/ ~Exists(sv.pre.main) /\ ~Exists(fs.main)

\* C7: every sale handed to send_sale_notification is either delivered, with
\* nothing written to the fallback files, or not delivered and appended once
\* to the log and once to the JSON history.
C7_DeliveredOrLogged ==
    \A i \in 1..Len(cyc.done) :
        LET e == cyc.done[i] IN
        IF e.delivered THEN e.is = e.was
        ELSE /\ e.is.log.lines = Append(e.was.log.lines, e.id)
             /\ e.is.json.kind = "json"
             /\ e.is.json.data # <<>>
             /\ e.is.json.data[Len(e.is.json.data)].sale_id = e.id
             /\ \/ e.is.json.data = Append(GetPendingNotifications(e.was), e.is.json.data[Len(e.is.json.data)])
                \/ Len(e.is.json.data) = MaxHistory

\* The sales delivered through the webhook by the step taken.
DeliveredInStep ==
    {cyc'.done[i].id : i \in {j \in 1..Len(cyc'.done) : j > Len(cyc.done) /\ cyc'.done[j].delivered}}

\* C8: a notification whose delivery failed stays in the failure queue until
\* a redelivery of it succeeds: no step removes a queued entry without
\* delivering it.
C8_QueuedUntilRedelivered ==
    [][\A i \in 1..Len(GetPendingNotifications(alt)) :
          LET q == GetPendingNotifications(alt)[i] IN
          q \in Range(GetPendingNotifications(alt')) \/ q.sale_id \in DeliveredInStep]_vars

\* C9: a 429 without a block marker is followed by one wait of
\* min(Retry-After, 10) seconds and one more post, whose outcome is returned;
\* a 429 with a block marker returns False with no wait and no second post.
C9_RateLimitRetriedOnce ==
    (wh.phase = "done" /\ wh.r1.kind = "http" /\ wh.r1.status = 429) =>
        IF wh.r1.body \in {"cloudflare", "html"}
        THEN wh.out = [result |-> FALSE, posts |-> 1, waits |-> <<>>]
        ELSE /\ wh.out.posts = 2
             /\ Len(wh.out.waits) = 1
             /\ wh.out.waits[1] <= MaxWait
             /\ (wh.r1.retryAfter # NoHeader /\ wh.r1.retryAfter <= MaxWait
                    => wh.out.waits[1] = wh.r1.retryAfter)
             /\ wh.out.result = (wh.r2.kind = "http" /\ wh.r2.status < 400)

\* The loop's states: inside a cycle, and asleep between two cycles.
CycleStates == {"cycle", "notify"}

\* One step of the loop: a cycle ends in the sleep or by an interruption, the
\* sleep ends in the next cycle or by an interruption, and a cycle in which
\* an error (as `failed` tells) occurred returns zero new sales.
LoopStep(failed) ==
    /\ pc \in CycleStates => pc' \in CycleStates \cup {"idle", "stopped"}
    /\ pc = "idle" => pc' \in {"idle", "cycle", "stopped"}
    /\ pc = "stopped" => pc' = "stopped"
    /\ (pc \in CycleStates /\ pc' = "idle" /\ failed) => cyc'.count = 0

\* C10 (as claimed): every cycle returns the loop to Idle and a sleep, the
\* loop ends only by an interruption, and a cycle in which any error was
\* raised (fetch, detection, notification) counts zero new sales.
C10_AnyErrorCountsZero ==
    [][LoopStep(\/ cyc.fetchFailed
                \/ cyc.raised
                \/ \E i \in 1..Len(cyc.done) : ~cyc.done[i].delivered)]_vars

\* C10 (amended): every cycle returns the loop to Idle and a sleep, the loop
\* ends only by an interruption, a failed fetch or an error that reaches the
\* handler of run_monitor_cycle counts zero new sales, and otherwise the
\* cycle counts every sale it handed to send_sale_notification, delivered or
\* not.
C10_LoopContainment ==
    [][/\ LoopStep(cyc.fetchFailed \/ cyc.raised)
       /\ (pc \in CycleStates /\ pc' = "idle" /\ ~cyc.raised)
              => cyc'.count = Len(Prefix(cyc.newSel, MaxNotify))]_vars

\* C10 witness: after a first cycle and its sleep, a cycle whose detection
\* pass raised is back in the sleep with zero new sales.
C10_Witness ==
    /\ pc = "idle"
    /\ now > 1
    /\ cyc.raised
    /\ cyc.count = 0

\* ------------------------------------------------------------ startup
\* The profile lookup of authenticate() was made and did not get HTTP 200.
AuthRefused ==
    /\ net.auth > 0
    /\ ~(net.profile.kind = "http" /\ net.profile.status = 200)

\* C11: when the startup authentication check does not get HTTP 200 (another
\* status, or a transport error), the loop never starts: no startup
\* announcement, no cycle, no fetch of sales, and no second authentication
\* attempt.
C11_AuthenticationGate ==
    AuthRefused =>
        /\ pc \in {"start", "returned"}
        /\ ~announced
        /\ ~net.posted
        /\ ~net.fetched
        /\ now = 0
        /\ cyc = IdleCycle
        /\ net.auth = 1

\* C11 witness: run() has returned after a refused authentication.
C11_Witness ==
    /\ pc = "returned"
    /\ AuthRefused
    /\ net.profile.kind = "http"

\* A setting is missing or the interval is too short or no number.
ConfigInvalid ==
    \/ ~conf.numeric
    \/ conf.gameflip_api_key = ""
    \/ conf.gameflip_totp_secret = ""
    \/ conf.discord_webhook_url = ""
    \/ conf.check_interval < MinInterval

\* C12: main returns 1 when the configuration is invalid or the setup of the
\* monitor fails, with an invalid configuration before any request to the
\* marketplace or the webhook; it returns 0 after an operator interruption
\* of the loop.
C12_StartupExitStatus ==
    /\ (pc # "main" /\ ConfigInvalid) =>
           (pc = "failed" /\ status = 1 /\ net = NoRequests /\ ~announced)
    /\ pc = "failed" => status = 1
    /\ pc = "stopped" => status = 0

\* C12 witness: main has returned 1 on a configuration that validate()
\* rejected.
C12_Witness ==
    /\ pc = "failed"
    /\ status = 1
    /\ errors # <<>>
    /\ net = NoRequests

\* ------------------------------------------------------ Config alone
\* validate() run on every combination of present and missing settings with
\* check intervals around the minimum.
AllConfigs ==
    {ConfigOf(k, t, w, n, TRUE) :
        k \in {"", "key"}, t \in {"", "secret"}, w \in {"", "url"},
        n \in (MinInterval - IntervalSpread)..(MinInterval + IntervalSpread)}

InitConfig ==
    /\ pc = "config"
    /\ authenticated = FALSE
    /\ announced = FALSE
    /\ fs = [main |-> Absent, backup |-> Absent]
    /\ data = EmptyMap
    /\ alt = [log |-> NoLog, json |-> Absent, marker |-> 0]
    /\ today = 1
    /\ now = 0
    /\ cyc = IdleCycle
    /\ alive = TRUE
    /\ sv = NoStorageOp
    /\ wh = NoWebhookCall
    /\ fails = 0
    /\ conf \in AllConfigs
    /\ errors = <<>>
    /\ status = NotReturned
    /\ net = NoRequests
    /\ kept = {}

\* config.validate(): the errors are logged, and ValueError is raised when
\* there are any.
ConfigValidate ==
    /\ pc = "config"
    /\ errors' = Validate(conf).errors
    /\ pc' = IF Validate(conf).raised THEN "rejected" ELSE "validated"
    /\ UNCHANGED <<authenticated, announced, data, fs, alt, today, now, cyc, alive, sv, wh,
                   fails, conf, status, net, kept>>

NextConfig == ConfigValidate

SpecConfig == InitConfig /\ [][NextConfig]_vars

\* The settings the configuration violates.
ViolatedSettings ==
    {name \in {"GAMEFLIP_API_KEY", "GAMEFLIP_TOTP_SECRET", "DISCORD_WEBHOOK_URL", "CHECK_INTERVAL"} :
        \/ name = "GAMEFLIP_API_KEY" /\ conf.gameflip_api_key = ""
        \/ name = "GAMEFLIP_TOTP_SECRET" /\ conf.gameflip_totp_secret = ""
        \/ name = "DISCORD_WEBHOOK_URL" /\ conf.discord_webhook_url = ""
        \/ name = "CHECK_INTERVAL" /\ conf.check_interval < MinInterval}

\* C13: for every subset of the four violations, one call of validate
\* reports one error for each violated setting and none for a setting that
\* is not violated, and it fails exactly when a setting is violated.
C13_ValidateReportsAll ==
    pc \in {"rejected", "validated"} =>
        /\ Range(errors) = ViolatedSettings
        /\ Len(errors) = Cardinality(ViolatedSettings)
        /\ (pc = "rejected") <=> (ViolatedSettings # {})

\* C13 witness: validate has rejected a configuration that violates all
\* four settings, with four errors.
C13_Witness ==
    /\ pc = "rejected"
    /\ Cardinality(ViolatedSettings) = 4
    /\ Len(errors) = 4

\* C14: _load_data on a missing storage file, or on one that does not
\* parse, returns an empty map without raising: the SalesStorage under
\* construction always comes to exist, with a map as its state.
C14_LoadNeverFails ==
    sv.op = "load" =>
        /\ alive
        /\ ~sv.raised
        /\ fs.main.kind \in {"absent", "partial"} => data = EmptyMap
        /\ fs.main.kind = "json" => data = fs.main.data

\* C14 witness: a SalesStorage was constructed over a file that does not
\* parse and holds the empty map.
C14_Witness ==
    /\ sv.op = "load"
    /\ alive
    /\ fs.main.kind = "partial"
    /\ data = EmptyMap

\* ----------------------------------------------------- across cycles
\* C15: a sale id that was stored as tracked in some cycle (notified,
\* dropped by the cap of 5, or recorded by a first run) and has been among
\* the candidates of every fetched list since is not selected as new, and so
\* is not handed to send_sale_notification again.
C15_NoRedetection ==
    \A x \in cyc.guarded :
        /\ x \notin Range(cyc.newSel)
        /\ x \notin Range(SelectedIds)
        /\ pc \in {"notify", "idle"} => x \in Range(MemoryIds)

\* C15 witness: a later cycle fetched again more than five ids stored by an
\* earlier cycle of this run, some of them never notified, and selected none.
C15_Witness ==
    /\ pc = "idle"
    /\ now > 1
    /\ Cardinality(cyc.guarded) > MaxNotify
    /\ cyc.newSel = <<>>
    /\ cyc.count = 0

\* A fetch that failed or returned nothing, or whose candidates are all in
\* the non-empty tracked set.
QuietFetch(fetched, before) ==
    \/ fetched = <<>>
    \/ /\ before # <<>>
       /\ \A i \in 1..Len(Prefix(fetched, TrackWindow)) :
              HasId(fetched[i]) => fetched[i] \in Range(before)

\* C16: a cycle whose fetch fails or returns an empty list, or whose
\* candidates are all in the non-empty tracked set, leaves the tracked ids
\* and the last-updated time unchanged in memory and on disk, hands no sale
\* to send_sale_notification and writes no fallback record.
C16_QuietCycleFrame ==
    [][(/\ pc \in CycleStates
        /\ pc' \in {"notify", "idle"}
        /\ QuietFetch(cyc'.fetched, cyc'.before))
          => /\ data' = data
             /\ fs' = fs
             /\ alt' = alt
             /\ cyc'.pending = <<>>
             /\ cyc'.done = <<>>
             /\ pc' = "idle" => cyc'.count = 0]_vars

\* C16 witness: a cycle that fetched only tracked sales has returned with
\* the stored ids and the stored time still those of an earlier update.
C16_Witness ==
    /\ pc = "idle"
    /\ cyc.fetched # <<>>
    /\ cyc.before # <<>>
    /\ QuietFetch(cyc.fetched, cyc.before)
    /\ data.upd < now
    /\ DiskIds = cyc.before
    /\ cyc.count = 0

\* ------------------------------------------ cycles with failing saves
\* The monitor with saves whose file operations may fail, and with reset()
\* called on its store between two cycles; every notification is delivered
\* and the fallback files are left alone.
FetchAndDetectFailing(ok, sales, F) ==
    /\ DetectPass(ok, sales, F)
    /\ cyc'.stored

\* The failures a save of the monitor meets: the write fails at open or
\* part-way, and the restoring rename works or fails too.
CycleFaults ==
    {F \in FaultChoices : F.rename = "ok" /\ F.remove = "ok" /\ F.write # "ok"}

\* storage.reset() while the loop sleeps.
MonitorReset ==
    /\ pc = "idle"
    /\ data' = EmptyMap
    /\ fs' = SaveData(fs, EmptyMap, NoFaults)
    /\ sv' = [NoStorageOp EXCEPT !.op = "reset", !.preData = data]
    /\ kept' = {}
    /\ UNCHANGED <<pc, authenticated, announced, alt, today, now, cyc, alive, wh, fails,
                   conf, errors, status, net>>

NextCycles ==
    \/ MainStart
    \/ \E setupOk \in BOOLEAN, r \in ProfileResponses : Construct(setupOk, r)
    \/ RunStart
    \/ \E ok \in BOOLEAN, sales \in FetchedLists : FetchAndDetect(ok, sales)
    \/ NotifyOne(Delivered204, Delivered204)
    \/ CycleReturn
    \/ TimerElapse
    \/ Interrupt
    \/ \E sales \in FetchedLists, F \in CycleFaults :
          FetchAndDetectFailing(TRUE, sales, F)
    \/ MonitorReset

SpecCycles == Init /\ [][NextCycles]_vars

\* The step is a call of reset().
ResetStep == sv'.op = "reset" /\ sv' # sv

LoggedSoFar(h) ==
    [log |-> [exists |-> h > 0, lines |-> [i \in 1..h |-> i]],
     json |-> IF h = 0 THEN Absent
              ELSE JsonFile([i \in 1..h |-> HistoryRecord(i, i)]),
     marker |-> 0]

InitHistory ==
    /\ pc = "history"
    /\ authenticated = TRUE
    /\ announced = FALSE
    /\ fs = [main |-> Absent, backup |-> Absent]
    /\ data = EmptyMap
    /\ \E h \in 0..MaxHistory : alt = LoggedSoFar(h) /\ now = h
    /\ today = 1
    /\ cyc = IdleCycle
    /\ alive = TRUE
    /\ sv = NoStorageOp
    /\ wh = NoWebhookCall
    /\ fails = 0
    /\ conf = ValidConfig
    /\ errors = <<>>
    /\ status = NotReturned
    /\ net = NoRequests
    /\ kept = {}

\* log_sale_notification for the next failed delivery.
HistoryLog ==
    /\ pc = "history"
    /\ fails < MaxLogged
    /\ fails' = fails + 1
    /\ now' = now + 1
    /\ alt' = LogSaleNotification(alt, now', now')
    /\ UNCHANGED <<pc, authenticated, announced, data, fs, today, cyc, alive, sv, wh, conf,
                   errors, status, net, kept>>

NextHistory == HistoryLog

SpecHistory == InitHistory /\ [][NextHistory]_vars

\* C18: after k failed deliveries logged through log_sale_notification the
\* JSON history holds the most recent min(k, 50) notifications in arrival
\* order, the oldest evicted first, each with the delivery-failure status
\* and its notification time.
C18_BoundedHistory ==
    LET k == Len(alt.log.lines)
        d == alt.json.data
        n == IF k < MaxHistory THEN k ELSE MaxHistory
    IN (pc = "history" /\ k > 0) =>
        /\ alt.json.kind = "json"
        /\ Len(d) = n
        /\ \A i \in 1..n :
              /\ d[i].sale_id = alt.log.lines[k - n + i]
              /\ d[i].notification_time = k - n + i
              /\ d[i].status = "logged_due_to_cloudflare_block"

\* C18 witness: more than 50 notifications were logged, the last ones
\* through log_sale_notification, and the oldest was evicted.
C18_Witness ==
    /\ pc = "history"
    /\ fails > 1
    /\ Len(alt.log.lines) > MaxHistory
    /\ Len(alt.json.data) = MaxHistory
    /\ alt.json.data[1].sale_id = Len(alt.log.lines) - MaxHistory + 1

\* ------------------------------------------- the monitor over dates
\* The monitor loop with the UTC date changing while it sleeps.
NextDays ==
    \/ Next
    \/ DayChange

SpecDays == Init /\ [][NextDays]_vars

\* C19: while the monitor runs, the log and the JSON history are truncated
\* once per UTC day: every cycle begins with the files cleared for the
\* current date; the clear_logs_daily that changes the marker sets it to the
\* current date and leaves both files without entries; and a further
\* clear_logs_daily on the date of the marker changes nothing.
C19_DailyRotation ==
    [][/\ (pc = "idle" /\ pc' = "cycle") => alt'.marker = today'
       /\ alt'.marker # alt.marker =>
              /\ alt'.marker = today
              /\ alt'.log.lines = <<>>
              /\ GetPendingNotifications(alt') = <<>>
       /\ alt.marker = today => ClearLogsDailyOf(alt, today) = alt]_vars

\* C20: the loop exits on an operator interruption only after the cycle in
\* progress has finished: when it has exited, every sale the cycle selected
\* for notification was handed to send_sale_notification and was delivered
\* or written to the fallback log, so no id stored as tracked in that cycle
\* is left without its notification.
C20_CleanInterruption ==
    (pc = "stopped" /\ cyc.stored) =>
        /\ cyc.pending = <<>>
        /\ SentIds = Prefix(cyc.newSel, MaxNotify)
        /\ \A i \in 1..Len(cyc.done) :
              \/ cyc.done[i].delivered
              \/ cyc.done[i].is.log.lines = Append(cyc.done[i].was.log.lines, cyc.done[i].id)

\* ------------------------------------------------- after a save returns
\* The last storage operation was a set or a reset that called _save_data,
\* and it has returned.
SaveReturned ==
    \/ sv.op = "reset"
    \/ sv.op = "set" /\ sv.new # sv.preData

C22_MemoryEqualsDisk ==
    SaveReturned => LoadData(fs) = data

\* C23: after clear_logs_daily has truncated an existing JSON history, a
\* later log_sale_notification records its notification in the history,
\* which then holds the notifications logged since the truncation.
C23_HistorySurvivesRotation ==
    \A i \in 1..Len(cyc.done) :
        LET e == cyc.done[i] IN
        (~e.delivered /\ e.was.json.kind = "partial") =>
            /\ e.is.json.kind = "json"
            /\ Len(e.is.json.data) = 1
            /\ e.is.json.data[1].sale_id = e.id

====
